---- MODULE Spec2Model ----
(***************************************************************************)
(* generic-bloom: a Bloom filter generic over its backing storage B and    *)
(* its BuildHasher type S (src/src/lib.rs, src/src/simple_filter.rs,       *)
(* src/src/traits.rs).                                                     *)
(*                                                                         *)
(* The model instantiates the generic parameters with small types:         *)
(*   B  is either "BitBox" (presence bits) or "Box" (Box<[T]>, counters);  *)
(*   T  is an unsigned integer of CounterBits bits;                        *)
(*   S  is a keyed hasher whose key is a seed in 0..MaxSeed.               *)
(* One filter (hashers, set) is operated on; a second filter built with    *)
(* with_hashers(f1.hashers().clone(), n_counters) holds the storage        *)
(* `other` that union and intersect read.                                  *)
(***************************************************************************)
EXTENDS Integers, Sequences, FiniteSets, TLC

\* ---- bounds of the model ----
MaxHashers == 3
NCounters == 3
CounterBits == 2
MaxSeed == 2
NValues == 2
MaxOps == 4

Values == 1 .. NValues
Seeds == 0 .. MaxSeed
StorageKinds == {"BitBox", "Box"}

VARIABLES
    kind,         \* the storage type B of the filter
    hashers,      \* BloomFilter.hashers: the seeds of the k BuildHashers
    set,          \* BloomFilter.set: the counters of the filter
    other,        \* the set of the second filter (same hashers, same size)
    panicked,     \* the thread has panicked (arithmetic overflow in decrement)
    ins,          \* history: insert(v) calls since construction or the last clear
    rem,          \* history: remove(v) calls since construction or the last clear
    overRemoved,  \* history: some remove(v) was called with rem[v] >= ins[v]
    intersected,  \* history: intersect was called since the last clear
    underflowed,  \* history: a decrement overflowed since the last clear
    hist,         \* history: the last operation (and the insert(v) before a remove(v))
    nops          \* number of operations performed

vars == <<kind, hashers, set, other, panicked, ins, rem, overRemoved,
          intersected, underflowed, hist, nops>>

\* ---- the counter type T ----

\* T::max_value() of an unsigned CounterBits-bit integer
MaxValue == 2 ^ CounterBits - 1

\* mutant: addition that does not saturate
PlainAdd(a, b) == a + b

\* mutant: addition that wraps at the type's width
WrappingAdd(a, b) == (a + b) % (MaxValue + 1)

\* a.saturating_add(&b)
SaturatingAdd(a, b) == IF a + b > MaxValue THEN MaxValue ELSE a + b

\* the value `a -= b` stores when overflow checks are off: a - b modulo 2^w
WrappingSub(a, b) == (a - b) % (MaxValue + 1)

\* ---- hashing ----

\* b.build_hasher(); val.hash(&mut h); h.finish(): the digest of val under
\* the hasher keyed by seed.  An even seed is a hasher under which all values
\* collide, an odd seed one that spreads them.  Digests stay far below 2^64.
Finish(seed, val) == seed \div 2 + (seed % 2) * val

\* mutant: hash_indices that yields each index once, at its first occurrence
HashIndicesDedup(hs, set_size, val) ==
    LET idx == [n \in 1 .. Len(hs) |-> Finish(hs[n], val) % set_size]
        first == {n \in 1 .. Len(hs) : \A m \in 1 .. n - 1 : idx[m] # idx[n]}
        nth(k) == CHOOSE n \in first : Cardinality({m \in first : m < n}) = k - 1
    IN  [k \in 1 .. Cardinality(first) |-> idx[nth(k)]]

\* hash_indices: one index per hasher, in hasher order, no deduplication
HashIndices(hs, set_size, val) ==
    [n \in 1 .. Len(hs) |-> Finish(hs[n], val) % set_size]

\* ---- storage: BloomSet for BitBox ----

BitNew(count) == [i \in 0 .. count - 1 |-> FALSE]
BitIncrement(s, index) == [s EXCEPT ![index] = TRUE]
BitClear(s) == [i \in DOMAIN s |-> FALSE]
BitQuery(s, index) == s[index]
\* mutant: union computed with AND
BitUnionAnd(s, o) == [i \in DOMAIN s |-> s[i] /\ o[i]]
BitUnion(s, o) == [i \in DOMAIN s |-> s[i] \/ o[i]]
\* mutant: intersect computed with OR
BitIntersectOr(s, o) == [i \in DOMAIN s |-> s[i] \/ o[i]]
BitIntersect(s, o) == [i \in DOMAIN s |-> s[i] /\ o[i]]

\* ---- storage: BloomSet, BloomSetDelete, SpectralBloomSet for Box<[T]> ----

BoxNew(count) == [i \in 0 .. count - 1 |-> 0]
BoxIncrement(s, index) == [s EXCEPT ![index] = SaturatingAdd(s[index], 1)]
\* mutant: clear that spares the saturated counters
BoxClearUnsaturated(s) ==
    [i \in DOMAIN s |-> IF s[i] = MaxValue THEN s[i] ELSE 0]
BoxClear(s) == [i \in DOMAIN s |-> 0]
QueryCount(s, index) == s[index]
BoxQuery(s, index) == QueryCount(s, index) > 0

\* mutant: decrement with the saturation test inverted
BoxDecrementInverted(s, index, checks) ==
    IF s[index] = MaxValue
    THEN [set |-> [s EXCEPT ![index] = WrappingSub(s[index], 1)],
          overflow |-> FALSE, panic |-> FALSE]
    ELSE [set |-> s, overflow |-> FALSE, panic |-> FALSE]

\* mutant: decrement without the saturation test
BoxDecrementUnguarded(s, index, checks) ==
    IF s[index] - 1 < 0 /\ checks
    THEN [set |-> s, overflow |-> TRUE, panic |-> TRUE]
    ELSE [set |-> [s EXCEPT ![index] = WrappingSub(s[index], 1)],
          overflow |-> s[index] - 1 < 0, panic |-> FALSE]

\* decrement: `if self[index] != T::max_value() { self[index] -= T::one(); }`.
\* At zero the subtraction overflows: with overflow checks (checks = TRUE) it
\* panics before storing, without them it wraps.  The result is the storage,
\* whether the subtraction overflowed and whether the call panicked.
BoxDecrement(s, index, checks) ==
    IF s[index] # MaxValue
    THEN IF s[index] - 1 < 0 /\ checks
         THEN [set |-> s, overflow |-> TRUE, panic |-> TRUE]
         ELSE [set |-> [s EXCEPT ![index] = WrappingSub(s[index], 1)],
               overflow |-> s[index] - 1 < 0, panic |-> FALSE]
    ELSE [set |-> s, overflow |-> FALSE, panic |-> FALSE]

\* ---- storage: dispatch on B ----

New(B, count) == IF B = "BitBox" THEN BitNew(count) ELSE BoxNew(count)
Size(s) == Cardinality(DOMAIN s)
Increment(B, s, index) ==
    IF B = "BitBox" THEN BitIncrement(s, index) ELSE BoxIncrement(s, index)
ClearSet(B, s) == IF B = "BitBox" THEN BitClear(s) ELSE BoxClear(s)
Query(B, s, index) ==
    IF B = "BitBox" THEN BitQuery(s, index) ELSE BoxQuery(s, index)

\* ---- the filter ----

\* mutant: the insert loop stops one index early
RECURSIVE InsertFromSkipLast(_, _, _, _)
InsertFromSkipLast(B, s, idx, n) ==
    IF n >= Len(idx) THEN s
    ELSE InsertFromSkipLast(B, Increment(B, s, idx[n]), idx, n + 1)

\* insert: `for i in hash_indices(..) { self.set.increment(i) }`, from the
\* n-th index on
RECURSIVE InsertFrom(_, _, _, _)
InsertFrom(B, s, idx, n) ==
    IF n > Len(idx) THEN s
    ELSE InsertFrom(B, Increment(B, s, idx[n]), idx, n + 1)

InsertSet(B, hs, s, val) == InsertFrom(B, s, HashIndices(hs, Size(s), val), 1)

\* contains: false at the first index whose query is false, else true
Contains(B, hs, s, val) ==
    LET idx == HashIndices(hs, Size(s), val)
    IN  \A n \in 1 .. Len(idx) : Query(B, s, idx[n])

\* mutant: the remove loop decrements the counter after the hashed one
RECURSIVE RemoveFromShifted(_, _, _, _)
RemoveFromShifted(s, idx, n, checks) ==
    IF n > Len(idx) THEN [set |-> s, overflow |-> FALSE, panic |-> FALSE]
    ELSE LET d == BoxDecrement(s, (idx[n] + 1) % Cardinality(DOMAIN s), checks)
         IN  IF d.panic THEN d
             ELSE [RemoveFromShifted(d.set, idx, n + 1, checks)
                      EXCEPT !.overflow = @ \/ d.overflow]

\* remove: `for i in hash_indices(..) { self.set.decrement(i) }`, from the
\* n-th index on; a panic ends the loop
RECURSIVE RemoveFrom(_, _, _, _)
RemoveFrom(s, idx, n, checks) ==
    IF n > Len(idx) THEN [set |-> s, overflow |-> FALSE, panic |-> FALSE]
    ELSE LET d == BoxDecrement(s, idx[n], checks)
         IN  IF d.panic THEN d
             ELSE [RemoveFrom(d.set, idx, n + 1, checks)
                      EXCEPT !.overflow = @ \/ d.overflow]

RemoveSet(hs, s, val, checks) ==
    RemoveFrom(s, HashIndices(hs, Size(s), val), 1, checks)

\* mutant: the threshold test of contains_more_than with < for <=
RECURSIVE MoreThanFromStrict(_, _, _, _)
MoreThanFromStrict(s, idx, n, count) ==
    IF n > Len(idx) THEN TRUE
    ELSE IF QueryCount(s, idx[n]) < count THEN FALSE
    ELSE MoreThanFromStrict(s, idx, n + 1, count)

\* contains_more_than: `for i in hash_indices(..) { if *query_count(i) <=
\* *count { return false; } } true`, from the n-th index on
RECURSIVE MoreThanFrom(_, _, _, _)
MoreThanFrom(s, idx, n, count) ==
    IF n > Len(idx) THEN TRUE
    ELSE IF QueryCount(s, idx[n]) <= count THEN FALSE
    ELSE MoreThanFrom(s, idx, n + 1, count)

ContainsMoreThan(hs, s, val, count) ==
    MoreThanFrom(s, HashIndices(hs, Size(s), val), 1, count)

\* mutant: find_count that takes the maximum
FindCountMax(hs, s, val) ==
    LET idx == HashIndices(hs, Size(s), val)
        counts == {QueryCount(s, idx[n]) : n \in 1 .. Len(idx)}
        max == {c \in counts : \A d \in counts : c >= d}
    IN  IF max = {} THEN [count |-> 0, panic |-> TRUE]
        ELSE [count |-> CHOOSE c \in max : TRUE, panic |-> FALSE]

\* find_count: `hash_indices(..).map(query_count).min().unwrap()`.  min() is
\* None when there is no hasher, and unwrap() then panics.  The result is the
\* count returned and whether the call panicked (no count is returned then).
FindCount(hs, s, val) ==
    LET idx == HashIndices(hs, Size(s), val)
        counts == {QueryCount(s, idx[n]) : n \in 1 .. Len(idx)}
        min == {c \in counts : \A d \in counts : c <= d}
    IN  IF min = {} THEN [count |-> 0, panic |-> TRUE]
        ELSE [count |-> CHOOSE c \in min : TRUE, panic |-> FALSE]

\* ---- history bookkeeping ----

Record(op, val, pre) == [op |-> op, val |-> val, pre |-> pre]
\* the operation before the last is kept only for a remove(v) that follows
\* an insert(v)
Push(r) ==
    IF hist # <<>> /\ r.op = "remove" /\ hist[1].op = "insert" /\ hist[1].val = r.val
    THEN <<r, hist[1]>>
    ELSE <<r>>
NoCalls == [v \in Values |-> 0]

\* ---- the state machine ----

\* with_hashers(hashers, n_counters) for both filters: any seeds and any
\* number of hashers.  debug_assert!(hashers.len() > 0) exists only in a
\* build with debug assertions: there the constructor panics on an empty
\* vector and no filter exists; without them it returns a filter with no
\* hashers, which is the initial state with hashers = <<>>.
Init ==
    /\ kind \in StorageKinds
    /\ \E k \in 0 .. MaxHashers : hashers \in [1 .. k -> Seeds]
    /\ set = New(kind, NCounters)
    /\ other = New(kind, NCounters)
    /\ panicked = FALSE
    /\ ins = NoCalls
    /\ rem = NoCalls
    /\ overRemoved = FALSE
    /\ intersected = FALSE
    /\ underflowed = FALSE
    /\ hist = <<>>
    /\ nops = 0

Running == ~panicked /\ nops < MaxOps

Insert(v) ==
    /\ Running
    /\ set' = InsertSet(kind, hashers, set, v)
    /\ ins' = [ins EXCEPT ![v] = @ + 1]
    /\ hist' = Push(Record("insert", v, set))
    /\ nops' = nops + 1
    /\ UNCHANGED <<kind, hashers, other, panicked, rem, overRemoved, intersected, underflowed>>

\* insert on the second filter
InsertOther(v) ==
    /\ Running
    /\ kind = "BitBox"
    /\ other' = InsertSet(kind, hashers, other, v)
    /\ hist' = Push(Record("insert_other", v, set))
    /\ nops' = nops + 1
    /\ UNCHANGED <<kind, hashers, set, panicked, ins, rem, overRemoved, intersected, underflowed>>

Clear ==
    /\ Running
    /\ set' = ClearSet(kind, set)
    /\ ins' = NoCalls
    /\ rem' = NoCalls
    /\ overRemoved' = FALSE
    /\ intersected' = FALSE
    /\ underflowed' = FALSE
    /\ hist' = Push(Record("clear", 0, set))
    /\ nops' = nops + 1
    /\ UNCHANGED <<kind, hashers, other, panicked>>

\* remove exists only for storage with BloomSetDelete, i.e. Box<[T]>.
\* `checks` is whether the build has overflow checks on; it matters only when
\* a decrement meets a zero counter.
Remove(v) ==
    /\ Running
    /\ kind = "Box"
    /\ \E checks \in BOOLEAN :
          LET r == RemoveSet(hashers, set, v, checks)
          IN  /\ set' = r.set
              /\ panicked' = r.panic
              /\ underflowed' = (underflowed \/ r.overflow)
    /\ rem' = [rem EXCEPT ![v] = @ + 1]
    /\ overRemoved' = (overRemoved \/ rem[v] >= ins[v])
    /\ hist' = Push(Record("remove", v, set))
    /\ nops' = nops + 1
    /\ UNCHANGED <<kind, hashers, other, ins, intersected>>

\* union and intersect exist only for storage with BinaryBloomSet, i.e. BitBox
Union ==
    /\ Running
    /\ kind = "BitBox"
    /\ set' = BitUnion(set, other)
    /\ hist' = Push(Record("union", 0, set))
    /\ nops' = nops + 1
    /\ UNCHANGED <<kind, hashers, other, panicked, ins, rem, overRemoved, intersected, underflowed>>

Intersect ==
    /\ Running
    /\ kind = "BitBox"
    /\ set' = BitIntersect(set, other)
    /\ intersected' = TRUE
    /\ hist' = Push(Record("intersect", 0, set))
    /\ nops' = nops + 1
    /\ UNCHANGED <<kind, hashers, other, panicked, ins, rem, overRemoved,
                   underflowed>>

Next ==
    \/ \E v \in Values : Insert(v)
    \/ \E v \in Values : InsertOther(v)
    \/ \E v \in Values : Remove(v)
    \/ Clear
    \/ Union
    \/ Intersect

Spec == Init /\ [][Next]_vars

\* The filter over Box<[T]> alone, the storage with SpectralBloomSet for
\* which contains_more_than and find_count exist: the same operations with
\* no history kept and no bound on their number, so that the queries are
\* checked in every counter state the operations can reach.
History == <<ins, rem, overRemoved, intersected, underflowed, hist, nops>>

InitSpectral == Init /\ kind = "Box"

SpectralInsert(v) ==
    /\ ~panicked
    /\ set' = InsertSet(kind, hashers, set, v)
    /\ UNCHANGED <<kind, hashers, other, panicked, History>>

SpectralRemove(v) ==
    /\ ~panicked
    /\ \E checks \in BOOLEAN :
          LET r == RemoveSet(hashers, set, v, checks)
          IN  /\ set' = r.set
              /\ panicked' = r.panic
    /\ UNCHANGED <<kind, hashers, other, History>>

SpectralClear ==
    /\ ~panicked
    /\ set' = ClearSet(kind, set)
    /\ UNCHANGED <<kind, hashers, other, panicked, History>>

NextSpectral ==
    \/ \E v \in Values : SpectralInsert(v)
    \/ \E v \in Values : SpectralRemove(v)
    \/ SpectralClear

SpecSpectral == InitSpectral /\ [][NextSpectral]_vars

\* ---- what the last operations were ----

Idx(v) == HashIndices(hashers, Size(set), v)
IdxSet(v) == {Idx(v)[n] : n \in 1 .. Len(hashers)}
LastIs(op) == Len(hist) >= 1 /\ hist[1].op = op
\* the last two operations were insert(v) and then remove(v)
InsertThenRemove ==
    /\ Len(hist) = 2
    /\ hist[1].op = "remove"
    /\ hist[2].op = "insert"
    /\ hist[1].val = hist[2].val
\* no remove was called before the one recorded in hist[1]
OnlyThisRemove == rem = [NoCalls EXCEPT ![hist[1].val] = 1]
Min(a, b) == IF a <= b THEN a ELSE b

\* ---- C1 ----
\* C1: as long as no value was removed more times than it had been inserted
\* (and the filter was not intersected), every value whose inserts since the
\* last clear outnumber its removes is contained.
NoFalseNegatives ==
    (~overRemoved /\ ~intersected) =>
        \A v \in Values :
            ins[v] > rem[v] => Contains(kind, hashers, set, v)

\* a value is still inserted after a matched remove of a value it shares a
\* counter with
NoFalseNegativesWitness ==
    /\ LastIs("remove")
    /\ ~overRemoved
    /\ \E v \in Values :
          /\ v # hist[1].val
          /\ ins[v] > rem[v]
          /\ IdxSet(v) \cap IdxSet(hist[1].val) # {}
          /\ Contains(kind, hashers, set, v)

\* ---- C2 ----
\* C2: remove(v) leaves every counter of v that was zero at zero, and does
\* not fail.
DecrementFloorsAtZero ==
    LastIs("remove") =>
        \A i \in IdxSet(hist[1].val) :
            hist[1].pre[i] = 0 => (~panicked /\ set[i] = 0)

\* ---- C3 ----
\* C3: no counter ever exceeds the maximum M, and an insert leaves a counter
\* that was at M at M.
IncrementSaturates ==
    kind = "Box" =>
        /\ \A i \in DOMAIN set : QueryCount(set, i) <= MaxValue
        /\ LastIs("insert") =>
              \A i \in DOMAIN set :
                  hist[1].pre[i] = MaxValue => QueryCount(set, i) = MaxValue

\* an insert incremented a counter that was already at M
IncrementSaturatesWitness ==
    /\ kind = "Box"
    /\ LastIs("insert")
    /\ \E i \in IdxSet(hist[1].val) :
          hist[1].pre[i] = MaxValue /\ QueryCount(set, i) = MaxValue

\* ---- C4 ----
\* C4 as stated: in a state reached by inserts, insert(v) followed by one
\* remove(v) restores the result of contains(v).
InsertRemoveRestores ==
    (InsertThenRemove /\ OnlyThisRemove /\ ~panicked) =>
        Contains(kind, hashers, set, hist[1].val)
            = Contains(kind, hashers, hist[2].pre, hist[1].val)

\* the insert drove a counter of v from zero up to the maximum M
SaturatedFromZero ==
    \E i \in IdxSet(hist[1].val) :
        hist[2].pre[i] = 0 /\ hist[1].pre[i] = MaxValue

\* C4 amended: in a state reached by inserts, insert(v) followed by one
\* remove(v) restores the result of contains(v), provided the insert did not
\* drive a zero counter of v up to the maximum M.
InsertRemoveRestoresUnsaturated ==
    (InsertThenRemove /\ OnlyThisRemove /\ ~panicked /\ ~SaturatedFromZero) =>
        Contains(kind, hashers, set, hist[1].val)
            = Contains(kind, hashers, hist[2].pre, hist[1].val)

\* v was absent, insert(v) made it present, remove(v) made it absent again,
\* in a filter that holds another value
InsertRemoveRestoresWitness ==
    /\ InsertThenRemove
    /\ OnlyThisRemove
    /\ ~panicked
    /\ ~SaturatedFromZero
    /\ \E w \in Values : w # hist[1].val /\ ins[w] > 0
    /\ ~Contains(kind, hashers, hist[2].pre, hist[1].val)
    /\ Contains(kind, hashers, hist[1].pre, hist[1].val)
    /\ ~Contains(kind, hashers, set, hist[1].val)

\* ---- C5 ----
\* C5 as stated: find_count(v) returns a count, and it is >= min(M, inserts
\* of v - removes of v), in every state reached by inserts and removes
\* (checked where no decrement has overflowed, so that the subtraction at
\* zero plays no part).
FindCountOverestimates ==
    (kind = "Box" /\ ~underflowed) =>
        \A v \in Values :
            LET found == FindCount(hashers, set, v)
            IN  /\ ~found.panic
                /\ found.count >= Min(MaxValue, ins[v] - rem[v])

\* C5 amended: in a filter with at least one hasher, find_count(v) returns a
\* count and it is >= min(M, inserts of v - removes of v), the calls counted
\* since the last clear, in every state reached by inserts and removes in
\* which no value was removed more times than it had been inserted.
FindCountOverestimatesMatched ==
    (kind = "Box" /\ Len(hashers) >= 1 /\ ~overRemoved) =>
        \A v \in Values :
            LET found == FindCount(hashers, set, v)
            IN  /\ ~found.panic
                /\ found.count >= Min(MaxValue, ins[v] - rem[v])

\* after a matched remove, a value inserted twice still counts at least two
FindCountOverestimatesWitness ==
    /\ kind = "Box"
    /\ ~overRemoved
    /\ LastIs("remove")
    /\ \E v \in Values :
          /\ ins[v] - rem[v] >= 2
          /\ ~FindCount(hashers, set, v).panic
          /\ FindCount(hashers, set, v).count >= 2
          /\ IdxSet(v) \cap IdxSet(hist[1].val) # {}

\* ---- C6 ----
\* C6: after union, every value that the filter or the other filter contained
\* before the call is contained.
UnionIsSuperset ==
    LastIs("union") =>
        \A v \in Values :
            (Contains(kind, hashers, hist[1].pre, v) \/ Contains(kind, hashers, other, v))
                => Contains(kind, hashers, set, v)

\* union added a value that only the other filter contained
UnionIsSupersetWitness ==
    /\ LastIs("union")
    /\ \E v, w \in Values :
          /\ ~Contains(kind, hashers, hist[1].pre, v)
          /\ Contains(kind, hashers, other, v)
          /\ Contains(kind, hashers, hist[1].pre, w)
          /\ ~Contains(kind, hashers, other, w)
          /\ Contains(kind, hashers, set, v)
          /\ Contains(kind, hashers, set, w)

\* ---- C7 ----
\* C7: after intersect, every value the filter contains was contained by both
\* filters before the call.
IntersectIsSubset ==
    LastIs("intersect") =>
        \A v \in Values :
            Contains(kind, hashers, set, v) =>
                /\ Contains(kind, hashers, hist[1].pre, v)
                /\ Contains(kind, hashers, other, v)

\* intersect kept a value of both filters and dropped a value of one
IntersectIsSubsetWitness ==
    /\ LastIs("intersect")
    /\ \E v, w \in Values :
          /\ Contains(kind, hashers, set, v)
          /\ Contains(kind, hashers, hist[1].pre, w)
          /\ ~Contains(kind, hashers, other, w)
          /\ ~Contains(kind, hashers, set, w)

\* ---- C8 ----
\* C8: an insert or a remove leaves every counter that was at the maximum M
\* at M.
SaturatedStaysSaturated ==
    (kind = "Box" /\ (LastIs("insert") \/ LastIs("remove"))) =>
        \A i \in DOMAIN set : hist[1].pre[i] = MaxValue => set[i] = MaxValue

\* a remove decremented a counter that was at M, and it is still at M
SaturatedStaysSaturatedWitness ==
    /\ LastIs("remove")
    /\ ~panicked
    /\ \E i \in IdxSet(hist[1].val) :
          hist[1].pre[i] = MaxValue /\ set[i] = MaxValue

\* ---- C9 ----
\* C9 as stated: a clear step leaves every counter at zero/false and no
\* value contained, and changes neither the hashers nor the storage length.
ClearLeavesNoResidue ==
    [][(nops' = nops + 1 /\ hist'[1].op = "clear") =>
          /\ \A i \in DOMAIN set' : ~Query(kind', set', i)
          /\ \A v \in Values : ~Contains(kind', hashers', set', v)
          /\ hashers' = hashers
          /\ Size(set') = Size(set)]_vars

\* C9 amended: a clear step leaves every counter at zero/false and changes
\* neither the hashers nor the storage length; no value is contained after
\* it when the filter has at least one hasher.
ClearLeavesNoResidueHashed ==
    [][(nops' = nops + 1 /\ hist'[1].op = "clear") =>
          /\ \A i \in DOMAIN set' : ~Query(kind', set', i)
          /\ Len(hashers) >= 1 =>
                \A v \in Values : ~Contains(kind', hashers', set', v)
          /\ hashers' = hashers
          /\ Size(set') = Size(set)]_vars

\* clear emptied a filter that contained a value
ClearLeavesNoResidueWitness ==
    /\ LastIs("clear")
    /\ \E v \in Values :
          /\ Contains(kind, hashers, hist[1].pre, v)
          /\ ~Contains(kind, hashers, set, v)

\* ---- C10 ----
\* C10: a remove makes a contained value absent only if that value shares a
\* counter with the removed one; the witness below is the false negative.
RemoveHarmsOnlySharers ==
    LastIs("remove") =>
        \A w \in Values :
            (Contains(kind, hashers, hist[1].pre, w) /\ ~Contains(kind, hashers, set, w))
                => IdxSet(w) \cap IdxSet(hist[1].val) # {}

\* w was inserted and never removed, v shares a counter with w and was
\* removed more often than inserted, and w is no longer contained
FalseNegativeAfterOverRemoval ==
    /\ LastIs("remove")
    /\ ~underflowed
    /\ \E w \in Values :
          /\ w # hist[1].val
          /\ ins[w] > 0
          /\ rem[w] = 0
          /\ rem[hist[1].val] > ins[hist[1].val]
          /\ IdxSet(w) \cap IdxSet(hist[1].val) # {}
          /\ Contains(kind, hashers, hist[1].pre, w)
          /\ ~Contains(kind, hashers, set, w)

\* ---- C11 ----
\* the values of the counter type T
Counts == 0 .. MaxValue

\* C11: contains_more_than(v, c) is true exactly when the raw value of every
\* counter at the hash indices of v is strictly greater than c.
ContainsMoreThanIsThreshold ==
    kind = "Box" =>
        \A v \in Values :
            LET raw == {set[i] : i \in IdxSet(v)}
            IN  \A c \in Counts :
                    ContainsMoreThan(hashers, set, v, c)
                        <=> (\A x \in raw : x > c)

\* one counter of v is above a threshold c >= 1 and another is not, so
\* contains_more_than(v, c) is false while contains_more_than(v, c - 1) is true
ContainsMoreThanIsThresholdWitness ==
    /\ kind = "Box"
    /\ \E v \in Values : \E c \in Counts :
          /\ c >= 1
          /\ \E i, j \in IdxSet(v) : set[i] > c /\ set[j] = c
          /\ ~ContainsMoreThan(hashers, set, v, c)
          /\ ContainsMoreThan(hashers, set, v, c - 1)

\* ---- C12 ----
\* C12: in a filter with at least one hasher, find_count(v) returns the raw
\* value of one of the counters at the hash indices of v, and no counter at
\* those indices holds a smaller value.
FindCountIsMinimum ==
    (kind = "Box" /\ Len(hashers) >= 1) =>
        \A v \in Values :
            LET raw == {set[i] : i \in IdxSet(v)}
                found == FindCount(hashers, set, v)
            IN  /\ ~found.panic
                /\ found.count \in raw
                /\ \A x \in raw : found.count <= x

\* the counters of v hold different values and find_count(v) is the smaller,
\* a positive one
FindCountIsMinimumWitness ==
    /\ kind = "Box"
    /\ \E v \in Values : \E i, j \in IdxSet(v) :
          /\ 0 < set[i]
          /\ set[i] < set[j]
          /\ ~FindCount(hashers, set, v).panic
          /\ FindCount(hashers, set, v).count = set[i]

\* ---- C13 ----
\* the number of hashers that map v to position p
Hits(v, p) ==
    Cardinality({n \in 1 .. Len(hashers) :
                    Finish(hashers[n], v) % Size(set) = p})

\* C13: insert(v) raises the counter at every position p by the number j of
\* hashers that map v to p, up to the maximum M; remove(v) lowers a counter
\* that is not at M and holds at least j by j.
NoIndexDeduplication ==
    kind = "Box" =>
        /\ LastIs("insert") =>
              \A p \in DOMAIN set :
                  set[p] = Min(MaxValue, hist[1].pre[p] + Hits(hist[1].val, p))
        /\ (LastIs("remove") /\ ~panicked) =>
              \A p \in DOMAIN set :
                  (hist[1].pre[p] # MaxValue
                      /\ hist[1].pre[p] >= Hits(hist[1].val, p))
                  => set[p] = hist[1].pre[p] - Hits(hist[1].val, p)

\* insert(v) raised a counter that two or more hashers map v to by that
\* number, and the remove(v) after it lowered it by the same number
NoIndexDeduplicationWitness ==
    /\ kind = "Box"
    /\ InsertThenRemove
    /\ ~panicked
    /\ \E p \in DOMAIN set :
          /\ Hits(hist[1].val, p) >= 2
          /\ hist[1].pre[p] # MaxValue
          /\ hist[1].pre[p] = hist[2].pre[p] + Hits(hist[1].val, p)
          /\ set[p] = hist[1].pre[p] - Hits(hist[1].val, p)

====
